---- MODULE Spec2Model ----
(***************************************************************************)
(* A model of yajp, a strict recursive-descent JSON parser                 *)
(* (src/python/yajp.py).                                                   *)
(*                                                                         *)
(* The parser is single threaded.  Its state is the input text s, the      *)
(* cursor idx and the call stack of the sub-parsers; every sub-parser is   *)
(* a loop over peek(), and one action of the model is one iteration of     *)
(* one of these loops (with the calls it makes and, for the iteration      *)
(* that leaves the loop, the function's epilogue).                         *)
(*                                                                         *)
(* Characters are one-character strings, texts are sequences of            *)
(* characters.  Python's None returned by peek() is the string "None",     *)
(* which is no character.                                                  *)
(***************************************************************************)
EXTENDS Integers, Sequences, FiniteSets, TLC

VARIABLES
    s,        \* JSONParser.s: the input text
    idx,      \* JSONParser.idx: the cursor
    stack,    \* the call stack: one frame (the locals) per active sub-parser
    status,   \* "running", "returned", or the exception that ended parse
    result,   \* the value parse returned (meaningful when status = "returned")
    prev      \* the outcome of an earlier call of parse by the same caller

vars == <<s, idx, stack, status, result, prev>>

(***************************************************************************)
(* Bounds of the checked inputs.                                           *)
(***************************************************************************)
MaxLen == 4
MaxNumLen == 5
MaxObjTok == 5
MaxPairs == 3
MaxStrTok == 3
MaxArrTok == 4
MaxWs == 1
MaxPadded == 3
MaxCursorLen == 3
MaxOffset == 1
MaxFairNum == 4

(***************************************************************************)
(* Characters.                                                             *)
(***************************************************************************)
None == "None"

Digits == {"0", "1", "2", "3", "4", "5", "6", "7", "8", "9"}

NonZeroDigits == Digits \ {"0"}

HexDigits == Digits \cup {"a", "b", "c", "d", "e", "f", "A", "B", "C", "D", "E", "F"}

\* ord(): the code point of a character of the checked alphabets.
Ord(c) ==
    CASE c = "\t" -> 9   [] c = "\n" -> 10  [] c = "\r" -> 13  [] c = " " -> 32
      [] c = "\"" -> 34  [] c = "+" -> 43   [] c = "," -> 44   [] c = "-" -> 45
      [] c = "." -> 46   [] c = "/" -> 47   [] c = "0" -> 48   [] c = "1" -> 49
      [] c = "2" -> 50   [] c = "3" -> 51   [] c = "4" -> 52   [] c = "5" -> 53
      [] c = "6" -> 54   [] c = "7" -> 55   [] c = "8" -> 56   [] c = "9" -> 57
      [] c = ":" -> 58   [] c = "A" -> 65   [] c = "B" -> 66   [] c = "C" -> 67
      [] c = "D" -> 68   [] c = "E" -> 69   [] c = "F" -> 70   [] c = "X" -> 88
      [] c = "[" -> 91   [] c = "\\" -> 92  [] c = "]" -> 93   [] c = "a" -> 97
      [] c = "b" -> 98   [] c = "c" -> 99   [] c = "d" -> 100  [] c = "e" -> 101
      [] c = "f" -> 102  [] c = "l" -> 108  [] c = "n" -> 110  [] c = "r" -> 114
      [] c = "s" -> 115  [] c = "t" -> 116  [] c = "u" -> 117  [] c = "x" -> 120
      [] c = "{" -> 123  [] c = "}" -> 125

\* The value of one digit character, decimal or hexadecimal.
DigitVal(c) ==
    IF c \in Digits THEN Ord(c) - 48
    ELSE IF Ord(c) >= 97 THEN Ord(c) - 87 ELSE Ord(c) - 55

\* s[from : to] of Python, with 0-based bounds.
Slice(t, from, to) == SubSeq(t, from + 1, to)

(***************************************************************************)
(* JSON values (JSONValue).  Every value is a record [kind, val]:          *)
(*   None  [kind |-> "null",  val |-> 0]                                   *)
(*   bool  [kind |-> "bool",  val |-> TRUE]                                *)
(*   int   [kind |-> "int",   val |-> -12]                                 *)
(*   float [kind |-> "float", val |-> [neg, mant, exp]]                    *)
(*   str   [kind |-> "str",   val |-> <<code points>>]                     *)
(*   list  [kind |-> "list",  val |-> <<values>>]                          *)
(*   dict  [kind |-> "dict",  val |-> <<[key, value], ...>>]               *)
(* in insertion order.                                                     *)
(***************************************************************************)
PyNone == [kind |-> "null", val |-> 0]

PyBool(b) == [kind |-> "bool", val |-> b]

PyStr(cs) == [kind |-> "str", val |-> cs]

PyList(vs) == [kind |-> "list", val |-> vs]

PyDict(items) == [kind |-> "dict", val |-> items]

\* len(obj) of a dict or a list.
PyLen(v) == Len(v.val)

\* The position of key k in the items of a dict, 0 when absent.
KeyIndex(items, k) ==
    IF \E i \in 1..Len(items) : items[i].key = k
    THEN CHOOSE i \in 1..Len(items) : items[i].key = k
    ELSE 0

\* A dict whose assignment moves a present key to the end.
DictSetMoveToEnd(d, k, v) ==
    PyDict(Append(SelectSeq(d.val, LAMBDA it : it.key # k), [key |-> k, value |-> v]))

\* obj[key] = el on a Python dict: a present key keeps its place and gets the
\* new value, an absent key is added at the end.
DictSet(d, k, v) ==
    LET i == KeyIndex(d.val, k) IN
    IF i = 0 THEN PyDict(Append(d.val, [key |-> k, value |-> v]))
    ELSE PyDict([d.val EXCEPT ![i] = [key |-> k, value |-> v]])

(***************************************************************************)
(* Python's int() and float() on the spans parse_number hands them: texts  *)
(* over digits, '-', '+', '.', 'e', 'E'.                                   *)
(***************************************************************************)
IsDigits(t) == Len(t) > 0 /\ \A i \in 1..Len(t) : t[i] \in Digits

IsSign(c) == c = "-" \/ c = "+"

StripSign(t) == IF Len(t) > 0 /\ IsSign(t[1]) THEN Tail(t) ELSE t

IsNeg(t) == Len(t) > 0 /\ t[1] = "-"

RECURSIVE DecVal(_)
DecVal(t) == IF Len(t) = 0 THEN 0 ELSE 10 * DecVal(SubSeq(t, 1, Len(t) - 1)) + DigitVal(t[Len(t)])

\* int(t) succeeds: an optional sign and at least one digit.
PyIntValid(t) == IsDigits(StripSign(t))

PyInt(t) == [kind |-> "int", val |-> IF IsNeg(t) THEN 0 - DecVal(StripSign(t)) ELSE DecVal(StripSign(t))]

\* The position of the first 'e' or 'E' of t, or Len(t) + 1.
ExpPos(t) ==
    IF \E i \in 1..Len(t) : t[i] \in {"e", "E"}
    THEN CHOOSE i \in 1..Len(t) : t[i] \in {"e", "E"} /\ \A j \in 1..(i - 1) : t[j] \notin {"e", "E"}
    ELSE Len(t) + 1

\* The position of the first '.' of t, or Len(t) + 1.
DotPos(t) ==
    IF \E i \in 1..Len(t) : t[i] = "."
    THEN CHOOSE i \in 1..Len(t) : t[i] = "." /\ \A j \in 1..(i - 1) : t[j] # "."
    ELSE Len(t) + 1

Mantissa(t) == SubSeq(StripSign(t), 1, ExpPos(StripSign(t)) - 1)

Exponent(t) == SubSeq(StripSign(t), ExpPos(StripSign(t)) + 1, Len(StripSign(t)))

IntPart(m) == SubSeq(m, 1, DotPos(m) - 1)

FracPart(m) == SubSeq(m, DotPos(m) + 1, Len(m))

AllDigits(t) == \A i \in 1..Len(t) : t[i] \in Digits

\* float(t) succeeds: [sign] (digits [. [digits]] | . digits) [e [sign] digits].
PyFloatValid(t) ==
    LET m == Mantissa(t)
        u == StripSign(t)
    IN  /\ AllDigits(IntPart(m)) /\ AllDigits(FracPart(m))
        /\ Len(IntPart(m)) + Len(FracPart(m)) > 0
        /\ ExpPos(u) <= Len(u) => IsDigits(StripSign(Exponent(t)))

RECURSIVE Normal(_, _)
Normal(mant, exp) ==
    IF mant = 0 THEN [mant |-> 0, exp |-> 0]
    ELSE IF mant % 10 = 0 THEN Normal(mant \div 10, exp + 1)
    ELSE [mant |-> mant, exp |-> exp]

\* float(t): the decimal value mant * 10^exp in lowest terms, and the sign
\* (which a zero keeps).
PyFloat(t) ==
    LET m == Mantissa(t)
        e == Exponent(t)
        ev == IF Len(e) = 0 THEN 0
              ELSE IF IsNeg(e) THEN 0 - DecVal(StripSign(e)) ELSE DecVal(StripSign(e))
        n == Normal(DecVal(IntPart(m) \o FracPart(m)), ev - Len(FracPart(m)))
    IN  [kind |-> "float", val |-> [neg |-> IsNeg(t), mant |-> n.mant, exp |-> n.exp]]

\* int(t, 16) on a text of hex digits.
RECURSIVE HexVal(_)
HexVal(t) == IF Len(t) = 0 THEN 0 ELSE 16 * HexVal(SubSeq(t, 1, Len(t) - 1)) + DigitVal(t[Len(t)])

(***************************************************************************)
(* The cursor: peek and consume.                                           *)
(***************************************************************************)
\* peek(offset) with the cursor at i: None at or past the end, else the
\* character at i.  The offset only enters the bounds test; the character
\* read is always s[i].  No caller passes an offset.
PeekAt(i, offset) == IF i + offset >= Len(s) THEN None ELSE s[i + 1]

Peek == PeekAt(idx, 0)

\* consume() raising already at the last character.
ConsumeOkBeforeLast == ~(idx + 1 >= Len(s))

\* consume() raises at end-of-input and otherwise advances idx by one.
ConsumeOk == ~(idx >= Len(s))

Consumed == idx + 1

IsWs(c) == c \in {" ", "\t", "\n", "\r"}

\* is_valid_literal_ending letting every character end a literal.
IsValidLiteralEndingAny(c) == TRUE

IsValidLiteralEnding(c) == c = None \/ IsWs(c) \/ c \in {",", "]", "}"}

(***************************************************************************)
(* Frames: the locals of one active call.                                  *)
(***************************************************************************)
ElementFrame(root) ==
    [fn |-> "parse_element", root |-> root, obj |-> PyNone, assigned |-> FALSE]

\* key is unbound until the first key is read.
ObjectFrame ==
    [fn |-> "parse_object", obj |-> PyDict(<<>>), key |-> PyNone,
     expects_key |-> TRUE, expects_colon |-> FALSE, expects_object |-> FALSE]

ArrayFrame == [fn |-> "parse_array", arr |-> PyList(<<>>), expects_element |-> TRUE]

StringFrame == [fn |-> "parse_string", buf |-> <<>>]

HexFrame(n, start) == [fn |-> "parse_hex", n |-> n, start |-> start]

\* start_fraction and start_exponent hold False (0) or a cursor position;
\* the code only tests their truth, and a position of 0 is as false as False.
NumberFrame(start) ==
    [fn |-> "parse_number", start |-> start, start_fraction |-> 0, start_exponent |-> 0,
     number |-> FALSE, fraction |-> FALSE, exponent |-> FALSE, zero |-> FALSE,
     sign_number |-> FALSE, sign_exp |-> FALSE]

LiteralFrame(target, value) ==
    [fn |-> "parse_literal", target |-> target, value |-> value, i |-> 0]

Top == stack[Len(stack)]

Running(fn) == status = "running" /\ Len(stack) > 0 /\ Top.fn = fn

SetTop(f) == [stack EXCEPT ![Len(stack)] = f]

(***************************************************************************)
(* What a step does to the state.                                          *)
(***************************************************************************)
\* The iteration goes on in the same call, with the locals f.
Continue(newIdx, f) ==
    /\ idx' = newIdx
    /\ stack' = SetTop(f)
    /\ UNCHANGED <<s, status, result, prev>>

\* An exception: nothing catches it, parse ends with it.
Raise(exception) ==
    /\ status' = exception
    /\ UNCHANGED <<s, idx, stack, result, prev>>

\* An exception raised after the cursor has moved to newIdx.
RaiseAt(newIdx, exception) ==
    /\ status' = exception
    /\ idx' = newIdx
    /\ UNCHANGED <<s, stack, result, prev>>

\* The call of a sub-parser, whose locals start as callee.
Call(newIdx, callee) ==
    /\ idx' = newIdx
    /\ stack' = Append(stack, callee)
    /\ UNCHANGED <<s, status, result, prev>>

\* parse_string appending every \uXXXX code unit as a character of its own.
AppendCodeUnitPlain(buf, code) == Append(buf, code)

\* The surrogate rule of parse_string for a \uXXXX code unit.
AppendCodeUnit(buf, code) ==
    IF /\ Len(buf) > 0
       /\ 55296 <= buf[Len(buf)] /\ buf[Len(buf)] <= 56319
       /\ 56320 <= code /\ code <= 57343
    THEN [buf EXCEPT ![Len(buf)] = (buf[Len(buf)] - 55296) * 1024 + (code - 56320) + 65536]
    ELSE Append(buf, code)

\* The caller's statement that holds the call, done with the returned value v.
Deliver(caller, calleeFn, v) ==
    CASE caller.fn = "parse_element" ->
            [caller EXCEPT !.obj = v, !.assigned = TRUE]
      [] caller.fn = "parse_object" /\ calleeFn = "parse_string" ->
            [caller EXCEPT !.key = v, !.expects_key = FALSE, !.expects_colon = TRUE]
      [] caller.fn = "parse_object" /\ calleeFn = "parse_element" ->
            [caller EXCEPT !.obj = DictSet(caller.obj, caller.key, v), !.expects_object = FALSE]
      [] caller.fn = "parse_array" ->
            [caller EXCEPT !.arr = PyList(Append(caller.arr.val, v)), !.expects_element = FALSE]
      [] caller.fn = "parse_string" ->
            [caller EXCEPT !.buf = AppendCodeUnit(caller.buf, v.val)]

\* return v: the frame is popped and the caller goes on; the return of the
\* outermost call ends parse.
Return(newIdx, v) ==
    /\ idx' = newIdx
    /\ UNCHANGED <<s, prev>>
    /\ IF Len(stack) = 1
       THEN /\ stack' = <<>>
            /\ status' = "returned"
            /\ result' = v
       ELSE /\ stack' = Append(SubSeq(stack, 1, Len(stack) - 2),
                               Deliver(stack[Len(stack) - 1], Top.fn, v))
            /\ UNCHANGED <<status, result>>

(***************************************************************************)
(* parse_element: one iteration of its loop, or the end of the loop and    *)
(* the root's checks.                                                       *)
(***************************************************************************)
\* parse_element without the root's test for trailing data.
ElementEpilogueNoTrailingTest(f) ==
    IF f.root /\ f.obj = PyNone /\ ~f.assigned THEN Raise("JSONParserError")
    ELSE Return(idx, f.obj)

\* Lines 55-61: what follows the loop.
ElementEpilogue(f) ==
    IF f.root /\ Peek # None THEN Raise("JSONParserError")
    ELSE IF f.root /\ f.obj = PyNone /\ ~f.assigned THEN Raise("JSONParserError")
    ELSE Return(idx, f.obj)

\* Lines 31-53: the sub-parser the sigil val selects, entered.  parse_object,
\* parse_array and parse_string start by consuming the sigil.
Dispatch(val) ==
    CASE val = "{" -> IF ConsumeOk THEN Call(Consumed, ObjectFrame) ELSE Raise("JSONParserError")
      [] val = "[" -> IF ConsumeOk THEN Call(Consumed, ArrayFrame) ELSE Raise("JSONParserError")
      [] val = "\"" -> IF ConsumeOk THEN Call(Consumed, StringFrame) ELSE Raise("JSONParserError")
      [] val \in Digits \cup {"-"} -> Call(idx, NumberFrame(idx))
      [] val = "t" -> Call(idx, LiteralFrame(<<"t", "r", "u", "e">>, PyBool(TRUE)))
      [] val = "f" -> Call(idx, LiteralFrame(<<"f", "a", "l", "s", "e">>, PyBool(FALSE)))
      [] val = "n" -> Call(idx, LiteralFrame(<<"n", "u", "l", "l">>, PyNone))
      [] OTHER -> Raise("JSONParserError")

ElementStep ==
    /\ Running("parse_element")
    /\ LET f == Top
           val == Peek
       IN  IF val = None THEN ElementEpilogue(f)
           ELSE IF IsWs(val) THEN Continue(Consumed, f)
           ELSE IF f.assigned THEN ElementEpilogue(f)
           ELSE Dispatch(val)

(***************************************************************************)
(* parse_literal: one character of the keyword; the last one is followed   *)
(* by the test of the character after the keyword.                         *)
(***************************************************************************)
LiteralStep ==
    /\ Running("parse_literal")
    /\ LET f == Top IN
       IF Peek # f.target[f.i + 1] THEN Raise("JSONParserError")
       ELSE IF f.i + 1 < Len(f.target) THEN Continue(Consumed, [f EXCEPT !.i = f.i + 1])
       ELSE IF ~IsValidLiteralEnding(PeekAt(Consumed, 0)) THEN RaiseAt(Consumed, "JSONParserError")
       ELSE Return(Consumed, f.value)

(***************************************************************************)
(* parse_number: one iteration of its loop, or the end of the loop and the *)
(* conversion of the span.                                                 *)
(***************************************************************************)
\* parse_number returning with the cursor back at the start of the span.
NumberEpilogueRewind(f) ==
    LET span == Slice(s, f.start, idx) IN
    IF f.fraction \/ f.exponent
    THEN IF PyFloatValid(span) THEN Return(f.start, PyFloat(span)) ELSE Raise("ValueError")
    ELSE IF PyIntValid(span) THEN Return(f.start, PyInt(span)) ELSE Raise("ValueError")

\* parse_number converting every span with float().
NumberEpilogueAlwaysFloat(f) ==
    LET span == Slice(s, f.start, idx) IN
    IF PyFloatValid(span) THEN Return(idx, PyFloat(span)) ELSE Raise("ValueError")

\* Lines 269-272: int() or float() of the span; either may raise ValueError.
NumberEpilogue(f) ==
    LET span == Slice(s, f.start, idx) IN
    IF f.fraction \/ f.exponent
    THEN IF PyFloatValid(span) THEN Return(idx, PyFloat(span)) ELSE Raise("ValueError")
    ELSE IF PyIntValid(span) THEN Return(idx, PyInt(span)) ELSE Raise("ValueError")

\* parse_number going round its loop on a '.' it cannot take.
NumberDotSpin(f) ==
    IF f.fraction \/ f.exponent \/ (f.sign_number /\ ~(f.number \/ f.zero))
    THEN Continue(idx, f)
    ELSE Continue(Consumed, [f EXCEPT !.fraction = TRUE])

\* Lines 202-207.
NumberDot(f) ==
    IF f.fraction \/ f.exponent \/ (f.sign_number /\ ~(f.number \/ f.zero))
    THEN Raise("JSONParserError")
    ELSE Continue(Consumed, [f EXCEPT !.fraction = TRUE])

\* Lines 208-214.
NumberExp(f) ==
    IF f.exponent \/ (f.fraction /\ f.start_fraction = 0)
    THEN Raise("JSONParserError")
    ELSE Continue(Consumed, [f EXCEPT !.exponent = TRUE, !.fraction = FALSE])

\* Lines 215-223.
NumberFraction(f, val) ==
    IF val \in Digits
    THEN Continue(Consumed, IF f.start_fraction = 0 THEN [f EXCEPT !.start_fraction = idx] ELSE f)
    ELSE IF f.start_fraction = 0 THEN Raise("JSONParserError")
    ELSE NumberEpilogue(f)

\* Lines 224-235.
NumberExponent(f, val) ==
    IF ~f.sign_exp /\ f.start_exponent = 0 /\ (val = "-" \/ val = "+")
    THEN Continue(Consumed, [f EXCEPT !.sign_exp = TRUE])
    ELSE IF val \in Digits
    THEN Continue(Consumed, IF f.start_exponent = 0 THEN [f EXCEPT !.start_exponent = idx] ELSE f)
    ELSE IF f.start_exponent = 0 THEN Raise("JSONParserError")
    ELSE NumberEpilogue(f)

\* parse_number taking the digits after a leading 0 as more digits.
NumberZeroLenient(f, val) ==
    IF val \in Digits THEN Continue(Consumed, f) ELSE NumberEpilogue(f)

\* Lines 258-262: the character after a bare 0.
NumberZero(f, val) ==
    IF val \in Digits THEN Raise("JSONParserError") ELSE NumberEpilogue(f)

\* Lines 236-267: the integer part.  An iteration that matches no branch
\* changes nothing and the loop goes round again.
NumberInteger(f, val) ==
    IF f.start = idx
    THEN IF val = "-" THEN Continue(Consumed, [f EXCEPT !.sign_number = TRUE])
         ELSE IF val = "0" THEN Continue(Consumed, [f EXCEPT !.zero = TRUE])
         ELSE IF val \in NonZeroDigits THEN Continue(Consumed, [f EXCEPT !.number = TRUE])
         ELSE Raise("JSONParserError")
    ELSE IF idx = f.start + 1 /\ f.sign_number
    THEN IF val = "0" THEN Continue(Consumed, [f EXCEPT !.zero = TRUE])
         ELSE IF val \in NonZeroDigits THEN Continue(Consumed, [f EXCEPT !.number = TRUE])
         ELSE NumberEpilogue(f)
    ELSE IF f.zero THEN NumberZero(f, val)
    ELSE IF f.number
    THEN IF val \in Digits THEN Continue(Consumed, f) ELSE NumberEpilogue(f)
    ELSE Continue(idx, f)

NumberStep ==
    /\ Running("parse_number")
    /\ LET f == Top
           val == Peek
       IN  IF val = None THEN NumberEpilogue(f)
           ELSE IF val = "." THEN NumberDot(f)
           ELSE IF val \in {"e", "E"} THEN NumberExp(f)
           ELSE IF f.fraction THEN NumberFraction(f, val)
           ELSE IF f.exponent THEN NumberExponent(f, val)
           ELSE NumberInteger(f, val)

(***************************************************************************)
(* parse_hex: one iteration of its loop, or the end of the loop.           *)
(***************************************************************************)
\* Lines 135-137.
HexEpilogue(f) ==
    IF idx - f.start # f.n THEN Raise("JSONParserError")
    ELSE Return(idx, [kind |-> "int", val |-> HexVal(Slice(s, f.start, idx))])

HexStep ==
    /\ Running("parse_hex")
    /\ LET f == Top
           val == Peek
       IN  IF val = None THEN HexEpilogue(f)
           ELSE IF idx - f.start = f.n THEN HexEpilogue(f)
           ELSE IF val \in HexDigits THEN Continue(Consumed, f)
           ELSE Raise("JSONParserError")

(***************************************************************************)
(* parse_string: one iteration of its loop.                                *)
(***************************************************************************)
\* The escapes of parse_string with every selector taken for an escape: a
\* selector that is none stands for itself.
EscapeCodeAny(sel) ==
    CASE sel = "b" -> 8 [] sel = "f" -> 12 [] sel = "n" -> 10 [] sel = "r" -> 13
      [] sel = "t" -> 9 [] OTHER -> Ord(sel)

\* Lines 151-166: the character a one-character escape stands for, 0 for a
\* selector that is none (no escape stands for NUL).
EscapeCode(sel) ==
    CASE sel = "\"" -> 34 [] sel = "\\" -> 92 [] sel = "/" -> 47 [] sel = "b" -> 8
      [] sel = "f" -> 12  [] sel = "n" -> 10  [] sel = "r" -> 13 [] sel = "t" -> 9
      [] OTHER -> 0

\* Lines 147-181: a backslash, the selector after it and, for 'u', the call
\* of parse_hex(4).
StringEscape(f) ==
    LET sel == PeekAt(Consumed, 0) IN
    IF sel = None THEN RaiseAt(Consumed, "JSONParserError")
    ELSE IF sel = "u" THEN Call(Consumed + 1, HexFrame(4, Consumed + 1))
    ELSE IF EscapeCode(sel) = 0 THEN RaiseAt(Consumed, "JSONParserError")
    ELSE Continue(Consumed + 1, [f EXCEPT !.buf = Append(f.buf, EscapeCode(sel))])

StringStep ==
    /\ Running("parse_string")
    /\ LET f == Top
           val == Peek
       IN  IF val = None THEN Raise("JSONParserError")
           ELSE IF val = "\"" THEN Return(Consumed, PyStr(f.buf))
           ELSE IF val = "\\" THEN StringEscape(f)
           ELSE IF Ord(val) < 32 THEN Raise("JSONParserError")
           ELSE Continue(Consumed, [f EXCEPT !.buf = Append(f.buf, Ord(val))])

(***************************************************************************)
(* parse_object: one iteration of its loop.                                *)
(***************************************************************************)
\* Lines 78-83: the test that lets '}' end the object.
ObjectCloses(f, val) ==
    /\ PyLen(f.obj) = 0 \/ ~f.expects_key
    /\ ~f.expects_object
    /\ ~f.expects_colon
    /\ val = "}"

\* Lines 86-89: the key is read by parse_string, whose first statement
\* consumes the character at the cursor, whatever it is.
ObjectKey(f, val) == IF ConsumeOk THEN Call(Consumed, StringFrame) ELSE Raise("JSONParserError")

\* Lines 98-100: the test that accepts ','.
ObjectComma(f, val) == ~f.expects_object /\ val = ","

ObjectStep ==
    /\ Running("parse_object")
    /\ LET f == Top
           val == Peek
       IN  IF val = None THEN Raise("JSONParserError")
           ELSE IF IsWs(val) THEN Continue(Consumed, f)
           ELSE IF ObjectCloses(f, val) THEN Return(Consumed, f.obj)
           ELSE IF f.expects_key THEN ObjectKey(f, val)
           ELSE IF f.expects_colon /\ val = ":"
           THEN Continue(Consumed, [f EXCEPT !.expects_object = TRUE, !.expects_colon = FALSE])
           ELSE IF f.expects_object THEN Call(idx, ElementFrame(FALSE))
           ELSE IF ObjectComma(f, val) THEN Continue(Consumed, [f EXCEPT !.expects_key = TRUE])
           ELSE Raise("JSONParserError")

(***************************************************************************)
(* parse_array: one iteration of its loop.                                 *)
(***************************************************************************)
\* parse_array ending on ']' only after an element.
ArrayClosesAfterElement(f, val) == ~f.expects_element /\ val = "]"

\* Line 113: the test that lets ']' end the array.
ArrayCloses(f, val) == (PyLen(f.arr) = 0 \/ ~f.expects_element) /\ val = "]"

\* parse_array returning the elements read so far at end-of-input.
ArrayStepPrefix ==
    /\ Running("parse_array")
    /\ LET f == Top
           val == Peek
       IN  IF val = None THEN Return(idx, f.arr)
           ELSE IF IsWs(val) THEN Continue(Consumed, f)
           ELSE IF ArrayCloses(f, val) THEN Return(Consumed, f.arr)
           ELSE IF f.expects_element THEN Call(idx, ElementFrame(FALSE))
           ELSE IF val = "," THEN Continue(Consumed, [f EXCEPT !.expects_element = TRUE])
           ELSE Raise("JSONParserError")

ArrayStep ==
    /\ Running("parse_array")
    /\ LET f == Top
           val == Peek
       IN  IF val = None THEN Raise("JSONParserError")
           ELSE IF IsWs(val) THEN Continue(Consumed, f)
           ELSE IF ArrayCloses(f, val) THEN Return(Consumed, f.arr)
           ELSE IF f.expects_element THEN Call(idx, ElementFrame(FALSE))
           ELSE IF val = "," THEN Continue(Consumed, [f EXCEPT !.expects_element = TRUE])
           ELSE Raise("JSONParserError")

(***************************************************************************)
(* The checked input texts.                                                *)
(***************************************************************************)
SeqsUpTo(S, n) == UNION {[1..k -> S] : k \in 0..n}

RECURSIVE Flatten(_)
Flatten(toks) == IF Len(toks) = 0 THEN <<>> ELSE Head(toks) \o Flatten(Tail(toks))

\* Every text of at most MaxLen characters over the structural characters,
\* quote, backslash, two digits, '-', '.', 'e', a letter and a space.
Alphabet == {"{", "}", "[", "]", ":", ",", "\"", "\\", "0", "1", "-", ".", "e", "a", " "}

Texts == SeqsUpTo(Alphabet, MaxLen)

\* Every text of at most MaxNumLen characters of numeric literals, alone
\* and as the element of an array.
NumAlphabet == {"0", "1", "-", "+", ".", "e"}

NumTexts ==
    LET lits == SeqsUpTo(NumAlphabet, MaxNumLen) IN
    lits \cup {<<"[">> \o t \o <<"]">> : t \in lits}

\* Object texts: '{' and at most MaxObjTok of a key, a key whose opening
\* quote is a letter, ':', ',', a value and '}'.
ObjTokens == {<<"\"", "a", "\"">>, <<"a", "\"">>, <<":">>, <<",">>, <<"1">>, <<"}">>}

ObjTexts == {<<"{">> \o Flatten(toks) : toks \in SeqsUpTo(ObjTokens, MaxObjTok)}

\* Well-formed objects of at most MaxPairs members with keys "a", "b" and
\* the member's position as its value.
RECURSIVE Members(_, _)
Members(keys, n) ==
    IF n > Len(keys) THEN <<>>
    ELSE (IF n = 1 THEN <<>> ELSE <<",">>)
         \o <<"\"", keys[n], "\"", ":", CHOOSE d \in Digits : DigitVal(d) = n>>
         \o Members(keys, n + 1)

PairTexts == {<<"{">> \o Members(keys, 1) \o <<"}">> : keys \in SeqsUpTo({"a", "b"}, MaxPairs)}

\* String texts: the quotes around at most MaxStrTok of a character, one-
\* character escapes, \u escapes (a high and a low surrogate, a letter, one
\* cut short), an escape JSON does not have and a raw line feed.
StrTokens ==
    {<<"a">>, <<"\\", "n">>, <<"\\", "\"">>, <<"\\", "x">>, <<"\n">>,
     <<"\\", "u", "D", "8", "3", "D">>, <<"\\", "u", "D", "E", "0", "0">>,
     <<"\\", "u", "0", "0", "4", "1">>, <<"\\", "u", "0", "0">>}

StrTexts == {<<"\"">> \o Flatten(toks) \o <<"\"">> : toks \in SeqsUpTo(StrTokens, MaxStrTok)}

\* Array texts: at most MaxArrTok of the brackets, ',', a number, the three
\* keywords, a keyword run into a letter and a space.
ArrTokens ==
    {<<"[">>, <<"]">>, <<",">>, <<"1">>, <<" ">>, <<"t", "r", "u", "e">>,
     <<"f", "a", "l", "s", "e">>, <<"n", "u", "l", "l">>, <<"t", "r", "u", "e", "X">>}

ArrTexts == {Flatten(toks) : toks \in SeqsUpTo(ArrTokens, MaxArrTok)}

\* The texts the specification and the tests' fixtures name.
NamedTexts ==
    {<<" ", " ", "1", "2", "3", " ", " ">>, <<"0", "1">>, <<"-", "0", "1">>, <<"0", "1", "2">>,
     <<"0", "0">>, <<"0">>, <<"-", "0">>, <<"0", ".", "5">>, <<"0", "e", "1">>,
     <<"1", "e", "5">>, <<"1", "E", "5">>, <<"1", ".", "5", "e", "3">>, <<"1", ".", "5">>,
     <<"1", " ", "2">>, <<"t", "r", "u", "e", "X">>, <<"[", "1", ",", "]">>,
     <<"n", "u", "l">>, <<"t", "r", "u", "e", ":">>, <<"[", "t", "r", "u", "]">>,
     <<"[", "n", "u", "l", "l", "}">>,
     <<"\"", "\\", "u", "0", "0">>, <<"\"", "\\", "u", "0", "0", "4", "1">>, <<"\"", "\\">>,
     <<"[", "0", "1", "]">>, <<"[", "-", "0", "1", "]">>, <<"[", "1", "e", "5", "]">>,
     <<"{", "\"", "a", "\"", ":", "1", ",", "}">>,
     <<"{", "\"", "a", "\"", ":", "1", ",", "}", "\"", ":", "2", "}">>,
     <<"{", "\"", "a", "\"", ":", "1", ",", "\"", "a", "\"", ":", "2", "}">>,
     <<"{", "a", "\"", ":", "1", "}">>,
     <<"{", "\"", "a", "\"", ",", "\"", "b", "\"", ":", "1", "}">>,
     <<"\"", "\\", "u", "D", "8", "3", "D", "\\", "u", "D", "E", "0", "0", "\"">>}

Inputs ==
    Texts \cup NumTexts \cup ObjTexts \cup PairTexts \cup StrTexts \cup ArrTexts \cup NamedTexts

(***************************************************************************)
(* parse(s): JSONParser(s).parse(), which is parse_element(True).          *)
(***************************************************************************)
\* No call of parse came before this one.
NoCall == [text |-> <<>>, status |-> "none", result |-> PyNone]

Init ==
    /\ s \in Inputs
    /\ idx = 0
    /\ stack = <<ElementFrame(TRUE)>>
    /\ status = "running"
    /\ result = PyNone
    /\ prev = NoCall

Next ==
    \/ ElementStep
    \/ ObjectStep
    \/ ArrayStep
    \/ StringStep
    \/ HexStep
    \/ NumberStep
    \/ LiteralStep

Spec == Init /\ [][Next]_vars

(***************************************************************************)
(* Two calls of parse by one caller: parse(v), then parse(w1 + v + w2) for *)
(* strings w1, w2 of whitespace.  Every call makes its own JSONParser, so  *)
(* the second call starts from the state after construction.               *)
(***************************************************************************)
WsPads == SeqsUpTo({" ", "\t", "\n", "\r"}, MaxWs)

PaddedInputs ==
    NamedTexts \cup StrTexts \cup PairTexts
        \cup {t \in Texts \cup NumTexts \cup ArrTexts : Len(t) <= MaxPadded}

InitPadded ==
    /\ s \in PaddedInputs
    /\ idx = 0
    /\ stack = <<ElementFrame(TRUE)>>
    /\ status = "running"
    /\ result = PyNone
    /\ prev = NoCall

ParseAgain ==
    /\ status # "running"
    /\ prev = NoCall
    /\ \E w1, w2 \in WsPads :
          /\ s' = w1 \o s \o w2
          /\ idx' = 0
          /\ stack' = <<ElementFrame(TRUE)>>
          /\ status' = "running"
          /\ result' = PyNone
          /\ prev' = [text |-> s, status |-> status, result |-> result]

NextPadded ==
    \/ Next
    \/ ParseAgain

SpecPadded == InitPadded /\ [][NextPadded]_vars

(***************************************************************************)
(* parse(s) run to its end.                                                *)
(***************************************************************************)
FairInputs == PaddedInputs \cup {t \in NumTexts : Len(t) <= MaxFairNum}

InitFair ==
    /\ s \in FairInputs
    /\ idx = 0
    /\ stack = <<ElementFrame(TRUE)>>
    /\ status = "running"
    /\ result = PyNone
    /\ prev = NoCall

\* The interpreter goes on to the next statement whenever there is one.
FairSpec == InitFair /\ [][Next]_vars /\ WF_vars(Next)

(***************************************************************************)
(* parse_element() called as a non-root call on a new JSONParser(s).       *)
(***************************************************************************)
InitElement ==
    /\ s \in PaddedInputs
    /\ idx = 0
    /\ stack = <<ElementFrame(FALSE)>>
    /\ status = "running"
    /\ result = PyNone
    /\ prev = NoCall

SpecElement == InitElement /\ [][Next]_vars

(***************************************************************************)
(* The cursor operations of a JSONParser called one by one by a caller     *)
(* that catches the exception of consume.  stack holds the last call,      *)
(* result what it returned.                                                *)
(***************************************************************************)
CursorTexts == SeqsUpTo({"a", "\"", " "}, MaxCursorLen)

\* What peek and consume return: a string of one character, or None.
PyChar(c) == IF c = None THEN PyNone ELSE PyStr(<<Ord(c)>>)

InitCursor ==
    /\ s \in CursorTexts
    /\ idx = 0
    /\ stack = <<>>
    /\ status = "running"
    /\ result = PyNone
    /\ prev = NoCall

PeekOp ==
    \E offset \in 0..MaxOffset :
        /\ stack' = <<[fn |-> "peek", offset |-> offset]>>
        /\ result' = PyChar(PeekAt(idx, offset))
        /\ status' = "returned"
        /\ UNCHANGED <<s, idx, prev>>

ConsumeOp ==
    /\ stack' = <<[fn |-> "consume", offset |-> 0]>>
    /\ IF ConsumeOk
       THEN /\ idx' = Consumed
            /\ result' = PyChar(s[Consumed])
            /\ status' = "returned"
       ELSE /\ status' = "JSONParserError"
            /\ UNCHANGED <<idx, result>>
    /\ UNCHANGED <<s, prev>>

NextCursor ==
    \/ PeekOp
    \/ ConsumeOp

SpecCursor == InitCursor /\ [][NextCursor]_vars

(***************************************************************************)
(* The reference: the grammar of RFC 8259 and the value a reference        *)
(* decoder (json.loads, which the tests compare with) gives a valid text.  *)
(* Positions are 1-based; a result is [ok, val, next], next the position   *)
(* after what was read.  Nothing here is read from the parser's code; the  *)
(* claims use it to say which texts are valid and what they denote.        *)
(***************************************************************************)
RefFail == [ok |-> FALSE, val |-> PyNone, next |-> 0]

RefOk(v, next) == [ok |-> TRUE, val |-> v, next |-> next]

RefAt(t, i) == IF i >= 1 /\ i <= Len(t) THEN t[i] ELSE None

\* ws = *( space / tab / line feed / carriage return )
RECURSIVE RefWs(_, _)
RefWs(t, i) == IF RefAt(t, i) \in {" ", "\t", "\n", "\r"} THEN RefWs(t, i + 1) ELSE i

RECURSIVE RefDigitsEnd(_, _)
RefDigitsEnd(t, i) == IF RefAt(t, i) \in Digits THEN RefDigitsEnd(t, i + 1) ELSE i

\* number = [ minus ] int [ frac ] [ exp ]
\* int = zero / ( digit1-9 *DIGIT ), frac = "." 1*DIGIT,
\* exp = e [ minus / plus ] 1*DIGIT
RefNumber(t, i) ==
    LET j1 == IF RefAt(t, i) = "-" THEN i + 1 ELSE i
        j2 == IF RefAt(t, j1) = "0" THEN j1 + 1
              ELSE IF RefAt(t, j1) \in NonZeroDigits THEN RefDigitsEnd(t, j1)
              ELSE 0
        hasFrac == RefAt(t, j2) = "."
        j3 == IF hasFrac THEN RefDigitsEnd(t, j2 + 1) ELSE j2
        fracOk == hasFrac => j3 > j2 + 1
        hasExp == RefAt(t, j3) \in {"e", "E"}
        j4 == IF RefAt(t, j3 + 1) \in {"-", "+"} THEN j3 + 2 ELSE j3 + 1
        j5 == IF hasExp THEN RefDigitsEnd(t, j4) ELSE j3
        expOk == hasExp => j5 > j4
        span == SubSeq(t, i, j5 - 1)
    IN  IF j2 = 0 \/ ~fracOk \/ ~expOk THEN RefFail
        ELSE IF hasFrac \/ hasExp THEN RefOk(PyFloat(span), j5)
        ELSE RefOk(PyInt(span), j5)

RefIsHex4(t, i) == \A k \in i..(i + 3) : RefAt(t, k) \in HexDigits

RefHex4(t, i) == HexVal(SubSeq(t, i, i + 3))

RefIsHigh(u) == 55296 <= u /\ u <= 56319

RefIsLow(u) == 56320 <= u /\ u <= 57343

\* string = quotation-mark *char quotation-mark, from the position after the
\* opening quote.  An escaped high surrogate directly followed by an escaped
\* low surrogate is one character; any other \uXXXX is the code unit itself.
RECURSIVE RefChars(_, _, _)
RefChars(t, i, acc) ==
    LET c == RefAt(t, i)
        e == RefAt(t, i + 1)
    IN  IF c = None THEN RefFail
        ELSE IF c = "\"" THEN RefOk(PyStr(acc), i + 1)
        ELSE IF c = "\\"
        THEN IF e = "u"
             THEN IF ~RefIsHex4(t, i + 2) THEN RefFail
                  ELSE IF /\ RefIsHigh(RefHex4(t, i + 2))
                          /\ RefAt(t, i + 6) = "\\" /\ RefAt(t, i + 7) = "u"
                          /\ RefIsHex4(t, i + 8)
                          /\ RefIsLow(RefHex4(t, i + 8))
                  THEN RefChars(t, i + 12,
                           Append(acc, (RefHex4(t, i + 2) - 55296) * 1024
                                       + (RefHex4(t, i + 8) - 56320) + 65536))
                  ELSE RefChars(t, i + 6, Append(acc, RefHex4(t, i + 2)))
             ELSE IF e \in {"\"", "\\", "/", "b", "f", "n", "r", "t"}
             THEN RefChars(t, i + 2, Append(acc,
                      CASE e = "\"" -> 34 [] e = "\\" -> 92 [] e = "/" -> 47 [] e = "b" -> 8
                        [] e = "f" -> 12  [] e = "n" -> 10  [] e = "r" -> 13 [] e = "t" -> 9))
             ELSE RefFail
        ELSE IF Ord(c) < 32 THEN RefFail
        ELSE RefChars(t, i + 1, Append(acc, Ord(c)))

RefString(t, i) == IF RefAt(t, i) = "\"" THEN RefChars(t, i + 1, <<>>) ELSE RefFail

RefLiteral(t, i, word, v) ==
    IF i + Len(word) - 1 <= Len(t) /\ SubSeq(t, i, i + Len(word) - 1) = word
    THEN RefOk(v, i + Len(word))
    ELSE RefFail

\* The members of an object as a mapping: every name once, at the place of
\* its first member, with the value of its last member.
RefMapping(members) ==
    LET firsts == {i \in 1..Len(members) : \A j \in 1..(i - 1) : members[j].key # members[i].key}
        lastOf(k) == CHOOSE i \in 1..Len(members) :
                         /\ members[i].key = k
                         /\ \A j \in (i + 1)..Len(members) : members[j].key # k
        RECURSIVE Build(_)
        Build(i) ==
            IF i > Len(members) THEN <<>>
            ELSE (IF i \in firsts
                  THEN <<[key |-> members[i].key, value |-> members[lastOf(members[i].key)].value]>>
                  ELSE <<>>) \o Build(i + 1)
    IN  PyDict(Build(1))

RECURSIVE RefValue(_, _)
RECURSIVE RefElements(_, _, _)
RECURSIVE RefMembers(_, _, _)

\* array: the elements after '[' or ',' (i is past the leading ws).
RefElements(t, i, acc) ==
    LET v == RefValue(t, i)
        j == IF v.ok THEN RefWs(t, v.next) ELSE 0
    IN  IF ~v.ok THEN RefFail
        ELSE IF RefAt(t, j) = "]" THEN RefOk(PyList(Append(acc, v.val)), j + 1)
        ELSE IF RefAt(t, j) = "," THEN RefElements(t, RefWs(t, j + 1), Append(acc, v.val))
        ELSE RefFail

\* object: the members after '{' or ',' (i is past the leading ws).
RefMembers(t, i, acc) ==
    LET k == RefString(t, i)
        c == IF k.ok THEN RefWs(t, k.next) ELSE 0
        v == IF k.ok /\ RefAt(t, c) = ":" THEN RefValue(t, RefWs(t, c + 1)) ELSE RefFail
        j == IF v.ok THEN RefWs(t, v.next) ELSE 0
        all == Append(acc, [key |-> k.val, value |-> v.val])
    IN  IF ~v.ok THEN RefFail
        ELSE IF RefAt(t, j) = "}" THEN RefOk(RefMapping(all), j + 1)
        ELSE IF RefAt(t, j) = "," THEN RefMembers(t, RefWs(t, j + 1), all)
        ELSE RefFail

\* value = false / null / true / object / array / number / string
RefValue(t, i) ==
    LET c == RefAt(t, i) IN
    CASE c = "{" -> IF RefAt(t, RefWs(t, i + 1)) = "}" THEN RefOk(PyDict(<<>>), RefWs(t, i + 1) + 1)
                    ELSE RefMembers(t, RefWs(t, i + 1), <<>>)
      [] c = "[" -> IF RefAt(t, RefWs(t, i + 1)) = "]" THEN RefOk(PyList(<<>>), RefWs(t, i + 1) + 1)
                    ELSE RefElements(t, RefWs(t, i + 1), <<>>)
      [] c = "\"" -> RefString(t, i)
      [] c \in Digits \cup {"-"} -> RefNumber(t, i)
      [] c = "t" -> RefLiteral(t, i, <<"t", "r", "u", "e">>, PyBool(TRUE))
      [] c = "f" -> RefLiteral(t, i, <<"f", "a", "l", "s", "e">>, PyBool(FALSE))
      [] c = "n" -> RefLiteral(t, i, <<"n", "u", "l", "l">>, PyNone)
      [] OTHER -> RefFail

\* JSON-text = ws value ws
RefParse(t) ==
    LET v == RefValue(t, RefWs(t, 1)) IN
    IF v.ok /\ RefWs(t, v.next) = Len(t) + 1 THEN v ELSE RefFail

ValidJSON(t) == RefParse(t).ok

(***************************************************************************)
(* The claims.                                                             *)
(***************************************************************************)
Returned == status = "returned"

Failed == status \in {"JSONParserError", "ValueError"}

Has(t, cs) == \E i \in 1..Len(t) : t[i] \in cs

AllWs(t) == \A i \in 1..Len(t) : IsWs(t[i])

\* C1: every text that is not valid JSON is rejected: parse returns a value
\* only for a text of the RFC 8259 grammar.
C1_Rejection == Returned => ValidJSON(s)

\* C2: every valid JSON text is accepted, and the value returned is the value
\* the reference decoder gives the text: the same structure, the same scalar
\* kinds, the same order of keys and elements.
C2_Acceptance ==
    status # "running" /\ ValidJSON(s) => Returned /\ result = RefParse(s).val

\* A valid text of an object of two members or more has been parsed.
C2_Witness ==
    /\ Returned /\ ValidJSON(s)
    /\ result.kind = "dict" /\ PyLen(result) >= 2
    /\ result.val[2].value.kind = "int"

\* C3: parse never ends with an error other than the parser's own
\* JSONParserError.
C3_OnlyParserError == status \in {"running", "returned", "JSONParserError"}

\* The root call holds its value and the loop of parse_element goes on.
RootValueProduced ==
    /\ Running("parse_element") /\ Len(stack) = 1
    /\ Top.root /\ Top.assigned

\* C4: at the root exactly one value is accepted: once the root's value is
\* produced a character that is not whitespace makes parse fail, no empty or
\* all-whitespace text is given a value, and parse returns only with the
\* cursor at the end of the text.
C4_ExactlyOneValue ==
    [][/\ RootValueProduced /\ Peek # None /\ ~IsWs(Peek) => status' = "JSONParserError"
       /\ status' = "returned" => idx' = Len(s) /\ ~AllWs(s)]_vars

\* parse failed on a character met after the root's value and whitespace.
C4_Witness ==
    /\ status = "JSONParserError"
    /\ Len(stack) = 1 /\ Top.fn = "parse_element" /\ Top.root /\ Top.assigned
    /\ idx > 1 /\ idx < Len(s) /\ IsWs(s[idx])

\* The text starts with '{', so that the first character that is not
\* whitespace after it is met where the first key is expected.
RootObjectText == Len(s) >= 1 /\ s[1] = "{"

\* C5: where parse_object expects a key, a character that is neither
\* whitespace nor '"' makes parse fail.  Stated for the first key of a root
\* object: no value is returned for a text whose '{' is followed by a
\* character other than '"' and the '}' of the empty object.
C5_KeyStartsWithQuote ==
    Returned /\ RootObjectText => RefAt(s, RefWs(s, 2)) \in {"\"", "}"}

\* parse_object in the state after a value: no key, ':' or value is awaited.
PostValue(f) == ~f.expects_key /\ ~f.expects_colon /\ ~f.expects_object

\* The step in which parse_object itself consumes the character at the cursor.
ObjectConsumes ==
    /\ Running("parse_object")
    /\ status' = "running" /\ Len(stack') = Len(stack) /\ idx' = idx + 1

\* C6: parse_object keeps the order key, ':', value, ',' or '}': it consumes
\* a ',' only in the state after a value, and after a key it consumes
\* nothing but whitespace and ':'.
C6_KeyColonValueOrder ==
    [][/\ ObjectConsumes /\ Peek = "," => PostValue(Top)
       /\ ObjectConsumes /\ Top.expects_colon => IsWs(Peek) \/ Peek = ":"]_vars

\* In a text without strings: every sign and every '.' is followed by a
\* digit, and every exponent marker (an 'e' after a digit or a '.') by a digit
\* or a sign.
FollowedByDigits(t) ==
    \A i \in 1..Len(t) :
        /\ t[i] \in {"-", "+", "."} => RefAt(t, i + 1) \in Digits
        /\ t[i] \in {"e", "E"} /\ RefAt(t, i - 1) \in Digits \cup {"."}
              => RefAt(t, i + 1) \in Digits \cup {"-", "+"}

\* C7: a numeric literal whose sign, '.' or exponent marker is not followed
\* by a digit makes parse fail, wherever the literal ends.  Stated for the
\* texts without strings, where each of these characters is part of a
\* numeric literal.
C7_DigitsRequired == Returned /\ ~Has(s, {"\""}) => FollowedByDigits(s)

\* In a text without strings: a '0' that starts an integer part (it follows
\* nothing, or a character that is no part of a number, or the '-' of the
\* number) and is followed by a digit.
LeadingZero(t) ==
    \E i \in 1..Len(t) :
        /\ t[i] = "0" /\ RefAt(t, i + 1) \in Digits
        /\ \/ RefAt(t, i - 1) \notin Digits \cup {".", "e", "E", "+", "-"}
           \/ RefAt(t, i - 1) = "-" /\ RefAt(t, i - 2) \notin {"e", "E"}

ZeroTexts == {<<"0">>, <<"-", "0">>, <<"0", ".", "5">>, <<"0", "e", "1">>}

\* C8: no leading zeros: a digit right after the bare '0' of an integer part
\* makes parse fail, while '0', '-0', '0.5' and '0e1' are accepted.
C8_NoLeadingZeros ==
    /\ Returned /\ ~Has(s, {"\""}) => ~LeadingZero(s)
    /\ status # "running" /\ s \in ZeroTexts => Returned

\* parse_number failed on the digit after a bare '0'.
C8_Witness ==
    /\ status = "JSONParserError"
    /\ Top.fn = "parse_number" /\ Top.zero /\ ~Top.fraction /\ ~Top.exponent
    /\ Peek \in Digits

\* The number a returned value is: the value itself, or the only element of
\* a returned list.
NumberOf(v) == IF v.kind = "list" /\ PyLen(v) = 1 THEN v.val[1] ELSE v

\* C9: the kind of a number follows the literal's shape: for a text that is
\* one numeric literal (alone or as the only element of an array), the value
\* is an int if the text has none of '.', 'e', 'E', and a float otherwise.
C9_KindByShape ==
    Returned /\ NumberOf(result).kind \in {"int", "float"}
        => (NumberOf(result).kind = "int" <=> ~Has(s, {".", "e", "E"}))

\* A literal with a fraction and an exponent has been given a float.
C9_Witness ==
    /\ Returned /\ result.kind = "float"
    /\ Has(s, {"."}) /\ Has(s, {"e"})

\* The members of a text of PairTexts: member n is "k":n, in this order.
MemberCount(t) == IF Len(t) = 2 THEN 0 ELSE (Len(t) - 1) \div 6

MemberKey(t, n) == PyStr(<<Ord(t[6 * n - 3])>>)

MemberValue(t, n) == PyInt(<<t[6 * n]>>)

FirstMember(t, k) ==
    CHOOSE n \in 1..MemberCount(t) :
        MemberKey(t, n) = k /\ \A m \in 1..(n - 1) : MemberKey(t, m) # k

LastMember(t, k) ==
    CHOOSE n \in 1..MemberCount(t) :
        MemberKey(t, n) = k /\ \A m \in (n + 1)..MemberCount(t) : MemberKey(t, m) # k

\* C10: duplicate keys: the returned mapping has every key of the text, each
\* once, with the value of the key's last member, and the keys are in the
\* order of their first members.
C10_DuplicateKeys ==
    Returned /\ s \in PairTexts =>
        LET items == result.val IN
        /\ result.kind = "dict"
        /\ \A n \in 1..MemberCount(s) : \E i \in 1..Len(items) : items[i].key = MemberKey(s, n)
        /\ \A i, j \in 1..Len(items) : items[i].key = items[j].key => i = j
        /\ \A i \in 1..Len(items) :
              /\ \E n \in 1..MemberCount(s) : MemberKey(s, n) = items[i].key
              /\ items[i].value = MemberValue(s, LastMember(s, items[i].key))
        /\ \A i, j \in 1..Len(items) :
              i < j => FirstMember(s, items[i].key) < FirstMember(s, items[j].key)

\* A text whose first key comes again after another key has been parsed.
C10_Witness ==
    /\ Returned /\ s \in PairTexts
    /\ MemberCount(s) = 3
    /\ MemberKey(s, 1) = MemberKey(s, 3) /\ MemberKey(s, 1) # MemberKey(s, 2)
    /\ PyLen(result) = 2

\* The text has, outside its strings (after an even number of quotes), a ','
\* whose next character that is not whitespace is a closer.
CloserAfterComma(t) ==
    \E i \in 1..Len(t) :
        /\ t[i] = ","
        /\ Cardinality({j \in 1..(i - 1) : t[j] = "\""}) % 2 = 0
        /\ RefAt(t, RefWs(t, i + 1)) \in {"]", "}"}

\* C11: no trailing comma: a closer met directly (modulo whitespace) after a
\* ',' never ends the container with a successful parse.  Stated for the
\* texts without escapes, where the quotes alone tell what is outside the
\* strings.
C11_NoTrailingComma == Returned /\ ~Has(s, {"\\"}) => ~CloserAfterComma(s)

Keywords == {<<"t", "r", "u", "e">>, <<"f", "a", "l", "s", "e">>, <<"n", "u", "l", "l">>}

LiteralEndings == {None, " ", "\t", "\n", "\r", ",", "]", "}"}

\* C12: parse_literal returns only if the text from the literal's first
\* character spells the whole keyword and the character after it is
\* whitespace, ',', ']', '}' or the end of the text; a character that does
\* not match the keyword, and any other character after it, makes parse fail.
C12_LiteralTerminator ==
    [][Running("parse_literal") =>
          LET word == Top.target
              start == idx - Top.i
              after == RefAt(s, start + Len(word) + 1)
          IN  /\ word \in Keywords
              /\ RefAt(s, idx + 1) # word[Top.i + 1] => status' = "JSONParserError"
              /\ Top.i + 1 = Len(word) /\ after \notin LiteralEndings
                    => status' = "JSONParserError"
              /\ Len(stack') < Len(stack) =>
                    /\ \A k \in 1..Len(word) : RefAt(s, start + k) = word[k]
                    /\ after \in LiteralEndings
                    /\ idx' = start + Len(word)
                    /\ status' = "running"]_vars

\* parse failed on the character after a whole keyword.
C12_Witness ==
    /\ status = "JSONParserError"
    /\ Len(stack) > 0 /\ Top.fn = "parse_literal" /\ Top.i + 1 = Len(Top.target)
    /\ RefAt(s, idx) = Top.target[Top.i + 1]
    /\ RefAt(s, idx + 1) \in {":", "X", "t", "["}

\* C13: idempotent whitespace: when parse accepts a text v, it accepts v with
\* strings of space, tab, newline and carriage return before and after it,
\* and returns the same value.
C13_IdempotentWhitespace ==
    status # "running" /\ prev.status = "returned" => Returned /\ result = prev.result

\* The step in which parse_hex returns the code unit of a \uXXXX escape to
\* parse_string.
HexReturns == Running("parse_hex") /\ Len(stack') = Len(stack) - 1

\* C14: surrogates in parse_string: when the code unit of a \uXXXX escape
\* is a low surrogate and the last accumulated character is a high surrogate,
\* that character is replaced by the one codepoint
\* (high - 0xD800) * 0x400 + (low - 0xDC00) + 0x10000 and the length stays;
\* in every other case the code unit is appended as one character (a lone
\* surrogate is kept, a combined character is not combined again).
C14_Surrogates ==
    [][HexReturns =>
          LET old == stack[Len(stack) - 1].buf
              new == stack'[Len(stack')].buf
              code == RefHex4(s, idx - 3)
              n == Len(old)
          IN  IF n > 0 /\ RefIsHigh(old[n]) /\ RefIsLow(code)
              THEN /\ Len(new) = n
                   /\ SubSeq(new, 1, n - 1) = SubSeq(old, 1, n - 1)
                   /\ new[n] = (old[n] - 55296) * 1024 + (code - 56320) + 65536
              ELSE new = Append(old, code)]_vars

\* A low surrogate has been appended after a combined character.
C14_Witness ==
    /\ Running("parse_string") /\ Len(Top.buf) = 2
    /\ Top.buf[1] >= 65536 /\ RefIsLow(Top.buf[2])

EscapeSelectors == {"\"", "\\", "/", "b", "f", "n", "r", "t", "u"}

ControlChars == {"\t", "\n", "\r"}

\* C15: parse_string rejects malformed content: a raw control character
\* inside the quotes, a backslash followed by a character that is no escape
\* selector, and a '\u' whose next four characters are not four hex digits
\* (another character or the end of the text among them) make parse fail;
\* parse_hex returns only with exactly the four characters after the 'u'
\* consumed.
C15_MalformedString ==
    [][/\ Running("parse_string") /\ RefAt(s, idx + 1) \in ControlChars
            => status' = "JSONParserError"
       /\ Running("parse_string") /\ RefAt(s, idx + 1) = "\\"
             /\ RefAt(s, idx + 2) \notin EscapeSelectors
            => status' = "JSONParserError"
       /\ Running("parse_hex") =>
            /\ Top.n = 4 /\ s[Top.start] = "u" /\ s[Top.start - 1] = "\\"
            /\ ~RefIsHex4(s, Top.start + 1) =>
                  \/ status' = "JSONParserError"
                  \/ /\ status' = "running" /\ Len(stack') = Len(stack)
                     /\ idx' = idx + 1 /\ idx' < Top.start + 4
            /\ HexReturns =>
                  RefIsHex4(s, Top.start + 1) /\ idx = Top.start + 4 /\ idx' = idx]_vars

\* parse failed on a character that is no hex digit among the four after a
\* '\u'.
C15_Witness ==
    /\ status = "JSONParserError"
    /\ Len(stack) > 0 /\ Top.fn = "parse_hex"
    /\ idx - Top.start \in 1..3 /\ Peek # None /\ Peek \notin HexDigits

Openers == {"parse_object", "parse_array", "parse_string"}

Closer(fn) ==
    CASE fn \in {"parse_object", "dict"} -> "}"
      [] fn \in {"parse_array", "list"} -> "]"
      [] fn \in {"parse_string", "str"} -> "\""

\* An object, an array or a string is open: its call is active.
Open == \E i \in 1..Len(stack) : stack[i].fn \in Openers

\* The last character of the text that is not whitespace.
LastChar(t) ==
    IF AllWs(t) THEN None
    ELSE t[CHOOSE i \in 1..Len(t) : ~IsWs(t[i]) /\ \A j \in (i + 1)..Len(t) : IsWs(t[j])]

\* C16: unterminated input: once the end of the text is reached while an
\* object, an array or a string is open, parse fails; the call of a container
\* or string returns only by consuming its closer, and no prefix of one is
\* returned as a value.
C16_Unterminated ==
    [][/\ status = "running" /\ idx = Len(s) /\ Open
            => Failed' \/ (status' = "running" /\ Open')
       /\ status = "running" /\ Top.fn \in Openers /\ Len(stack') < Len(stack)
            => Peek = Closer(Top.fn) /\ idx' = idx + 1
       /\ status' = "returned" /\ result'.kind \in {"dict", "list", "str"}
            => LastChar(s) = Closer(result'.kind)]_vars

\* parse failed at the end of the text in an array that has an element.
C16_Witness ==
    /\ status = "JSONParserError" /\ idx = Len(s)
    /\ Len(stack) > 0 /\ Top.fn = "parse_array" /\ PyLen(Top.arr) >= 1

\* C17: the cursor invariant: in every state 0 <= idx <= len(s), and no step
\* of a call of parse moves the cursor back.
C17_CursorInvariant ==
    [][/\ 0 <= idx /\ idx <= Len(s)
       /\ idx <= idx' /\ idx' <= Len(s)]_vars

\* The cursor has reached the end of a text of several characters inside
\* nested calls.
C17_Witness == status = "running" /\ idx = Len(s) /\ idx >= 3 /\ Len(stack) >= 3

\* C18: the cursor operations: peek leaves the position unchanged and
\* returns the character at the position, or None when the position is at
\* the length of the text (with an offset it returns no other character);
\* consume returns the character at the position and advances the position
\* by exactly one; consume at the end of the text fails and leaves the
\* position unchanged.
C18_CursorOperations ==
    [][LET call == stack'[1]
           here == IF idx < Len(s) THEN PyStr(<<Ord(s[idx + 1])>>) ELSE PyNone
       IN  /\ call.fn = "peek" =>
                /\ idx' = idx /\ status' = "returned"
                /\ result' \in {here, PyNone}
                /\ call.offset = 0 => result' = here
           /\ call.fn = "consume" =>
                IF idx < Len(s)
                THEN idx' = idx + 1 /\ status' = "returned" /\ result' = here
                ELSE idx' = idx /\ status' = "JSONParserError"]_vars

\* consume has failed at the end of a text that is not empty.
C18_Witness ==
    /\ status = "JSONParserError" /\ Len(stack) = 1 /\ stack[1].fn = "consume"
    /\ idx = Len(s) /\ Len(s) >= 2

Progress ==
    status = "running" =>
        idx' > idx \/ Len(stack') # Len(stack) \/ status' # "running"

\* C20: termination: for every text parse ends, with a value or an error,
\* and every iteration of the loops of the sub-parsers advances the cursor,
\* leaves the loop or raises (no state of the parse_number flags is left by
\* an iteration that does none of these).
C20_Termination == [][Progress]_vars /\ <>(status # "running")

\* parse has ended with a value at the end of a longest numeric text that
\* has a sign and a fraction.
C20_Witness ==
    /\ Returned /\ idx = Len(s)
    /\ s \in NumTexts /\ Len(s) = MaxFairNum
    /\ s[1] = "-" /\ Has(s, {"."})

====
